---- MODULE Spec2Model ----
(***************************************************************************)
(* A model of nyteshade/simple-types: the Type class of src/src/type.test.mjs *)
(* (lines 56-372): Type.from, Type.verify, the constructor synthesized by  *)
(* Type.classFromFormat, Type.ArrayOf, Type.Optional and Type.applyTo.     *)
(*                                                                         *)
(* JavaScript values are records [k, name, props]:                         *)
(*   k     the kind: "undefined", "null", "string", "number", "function",  *)
(*         "object", "array", and "throw" for an abrupt completion;        *)
(*   name  a string's or number's text, a function's name, an object's or  *)
(*         array's class tag (what Object.prototype.toString prints), an   *)
(*         exception's class;                                              *)
(*   props the own enumerable string-keyed properties, in Object.keys      *)
(*         order, as a sequence of <<key, value>> pairs.                   *)
(***************************************************************************)
EXTENDS Naturals, Sequences, FiniteSets, TLC

\* ------------------------------------------------------------ bounds
\* The longest array (as a value and as a fixed-length specifier).
MaxLen == 2
\* How many times the caller mutates its format object after new Type(...).
MaxMutations == 1

\* ------------------------------------------------------------ values
Undef == [k |-> "undefined", name |-> "", props |-> <<>>]
Null == [k |-> "null", name |-> "", props |-> <<>>]
Str(s) == [k |-> "string", name |-> s, props |-> <<>>]
Num(s) == [k |-> "number", name |-> s, props |-> <<>>]
Fn(n) == [k |-> "function", name |-> n, props |-> <<>>]
Obj(tag, props) == [k |-> "object", name |-> tag, props |-> props]
Arr(elems) ==
  [k |-> "array", name |-> "Array",
   props |-> [i \in 1..Len(elems) |-> <<ToString(i - 1), elems[i]>>]]
Thrown(err) == [k |-> "throw", name |-> err, props |-> <<>>]

\* An object literal {k1: v1, ...}.
Literal(props) == Obj("Object", props)

\* The global constructors used as primitive type references, and a function
\* expression with no name ((() => {}).name is '').
StringType == Fn("String")
NumberType == Fn("Number")
AnonFn == Fn("")

Throws(v) == v.k = "throw"

\* typeof v === 'object'
TypeofObject(v) == v.k \in {"null", "object", "array"}

\* Object.keys(v)
Keys(v) == [i \in 1..Len(v.props) |-> v.props[i][1]]

HasOwn(v, key) == \E i \in 1..Len(v.props) : v.props[i][1] = key

\* v[key]: a TypeError on undefined and null, the function's own name, an own
\* property, otherwise undefined.
Get(v, key) ==
  IF v.k \in {"undefined", "null"} THEN Thrown("TypeError")
  ELSE IF v.k = "function" /\ key = "name" THEN Str(v.name)
  ELSE IF HasOwn(v, key)
       THEN v.props[CHOOSE i \in 1..Len(v.props) : v.props[i][1] = key][2]
       ELSE Undef

\* Reflect.has(v, key): a TypeError unless v is an Object (functions are).
ReflectHasThrows(v) == v.k \notin {"object", "array", "function"}

ReflectHas(v, key) == HasOwn(v, key) \/ (v.k = "function" /\ key = "name")

\* ------------------------------------------------------------ Type.from
\* Object.prototype.toString.call(v) is "[object <ClassTag(v)>]".
ClassTag(v) ==
  CASE v.k = "undefined" -> "Undefined"
    [] v.k = "null" -> "Null"
    [] v.k = "string" -> "String"
    [] v.k = "number" -> "Number"
    [] v.k = "function" -> "Function"
    [] OTHER -> v.name

\* Class tags /t (\w+)]/ does not match: a tag with a character outside \w.
NonWordTags == {"Big Person"}

\* Names for which main?.[name] is undefined and the text
\* (typeof <name> !== 'undefined' && <name>) is not an expression, so that
\* eval throws a SyntaxError: the empty name (reserved words as well).
NotEvaluable == {""}

\* Type.from(v).name as a JavaScript value: a string, null when the regular
\* expression finds no tag, or the exception eval throws.
from(v) ==
  IF ClassTag(v) \in NonWordTags THEN Null
  ELSE LET name == IF ClassTag(v) = "Function" THEN v.name ELSE ClassTag(v)
       IN IF name \in NotEvaluable THEN Thrown("SyntaxError") ELSE Str(name)

\* ------------------------------------------------------------ Type.verify
\* A call's result is "true", "false", or "throw" for an exception.

\* isOpt: the specifier's type name is that of Type.Optional.
isOpt(type) == from(type) = Str("Optional")

\* optType: what an Optional wraps, any other specifier as it is.
optType(type) == IF isOpt(type) THEN Get(type, "type") ELSE type

RECURSIVE verify(_, _)
RECURSIVE every(_, _, _)

\* The callback of Object.keys(format).every(...), for one key.
verifyKey(object, format, key) ==
  LET spec == Get(format, key)
      fType == optType(spec)
      value == Get(object, key)
      oMeta == from(value)
  IN  IF Throws(from(spec)) THEN "throw"
      ELSE IF Throws(Get(fType, "name")) THEN "throw"
      ELSE IF ReflectHasThrows(object) THEN "throw"
      ELSE IF isOpt(spec) /\ ~ReflectHas(object, key) THEN "true"
      ELSE IF ~ReflectHas(object, key) THEN "false"
      ELSE IF Throws(oMeta) THEN "throw"
      ELSE IF oMeta \in {Str("Object"), Str("Array")} /\ TypeofObject(fType)
           THEN verify(value, fType)
      ELSE IF Get(fType, "name") = oMeta THEN "true" ELSE "false"

\* Array.prototype.every over the keys from the i-th on: it stops at the
\* first key whose callback does not return true.
every(object, format, i) ==
  IF i > Len(format.props) THEN "true"
  ELSE LET r == verifyKey(object, format, format.props[i][1])
       IN  IF r = "true" THEN every(object, format, i + 1) ELSE r

verify(object, format) == every(object, format, 1)

\* ------------------------------------------------------------ classFromFormat
\* Object.fromEntries(keys.map((key, index) => [key, values[index]]))
fromEntries(keys, values) ==
  Literal([i \in 1..Len(keys) |-> <<keys[i], Get(values, ToString(i - 1))>>])

\* The constructor without its keyed form: the arguments are always taken
\* by position.
constructorPositionalOnly(typeName, format, args) ==
  LET keys == Keys(format)
      values == fromEntries(keys, Arr(args))
  IN  Obj(typeName, [i \in 1..Len(keys) |-> <<keys[i], Get(values, keys[i])>>])

\* new type(...args) for the class synthesized from typeName and format: the
\* instance (its class tag is typeName, from the prototype's toStringTag), or
\* the TypeError of values[key] when values is null.
constructor(typeName, format, args) ==
  LET keys == Keys(format)
      first == IF Len(args) >= 1 THEN args[1] ELSE Undef
      picked == IF TypeofObject(first) THEN first ELSE Arr(args)
      values == IF picked.k = "array" THEN fromEntries(keys, picked) ELSE picked
  IN  IF Len(keys) > 0 /\ Throws(Get(values, keys[1])) THEN Thrown("TypeError")
      ELSE Obj(typeName, [i \in 1..Len(keys) |-> <<keys[i], Get(values, keys[i])>>])

\* new Type.ArrayOf(inner): Type.ArrayOf is the class synthesized by
\* new Type('ArrayOf', { type: Function }).
ArrayOf(inner) ==
  constructor("ArrayOf", Literal(<<<<"type", Fn("Function")>>>>), <<inner>>)

\* new Type.Optional(type), which Type.optional(type) returns.
Optional(type) == Obj("Optional", <<<<"type", type>>>>)

optional(optionalType) == Optional(optionalType)

\* ------------------------------------------------------------ applyTo
\* Object.defineProperties(object, {[key]: {value, enumerable: true}}) for a
\* string key: the property is replaced in place or appended.
DefineProperty(props, key, value) ==
  IF \E i \in 1..Len(props) : props[i][1] = key
  THEN [i \in 1..Len(props) |->
          IF props[i][1] = key THEN <<key, value>> ELSE props[i]]
  ELSE Append(props, <<key, value>>)

\* descriptor.applyTo(object): the class tag becomes typeName; PARAMS and
\* FORMAT are symbol-keyed; Symbol.constructor is undefined, so the class is
\* stored under the string key "undefined".
applyTo(typeName, object) ==
  IF object.k \in {"object", "array"}
  THEN [object EXCEPT !.name = typeName,
                      !.props = DefineProperty(@, "undefined", Fn(typeName))]
  ELSE object

\* ------------------------------------------------------------ new Type(...)
\* The constructor of Type: typeName, and format stored as it was passed, a
\* reference to the caller's object (this.type is the class synthesized from
\* the same typeName and the same reference).
Type(typeName, format) == [typeName |-> typeName, format |-> format]

\* {...format}, the value of the prototype's FORMAT property: a new object
\* with the same top-level properties.
ShallowCopy(format) == Literal(format.props)

\* ------------------------------------------------------------ inputs
SeqsUpTo(S, n) == UNION {[1..m -> S] : m \in 0..n}

WithOptional(key, S) == {<<>>} \cup {<<<<key, v>>>> : v \in S}

\* The descriptor's name: a word, and a name with a space in it.
TypeNames == {"Person", "Big Person"}

Prims == {StringType, NumberType}

\* Nested object formats over name: String and age: Number.
NestedFormats ==
  {Literal(n \o a) : n \in WithOptional("name", {StringType}),
                     a \in WithOptional("age", {NumberType})}
    \ {Literal(<<>>)}

PersonFormat == Literal(<<<<"name", StringType>>, <<"age", NumberType>>>>)

\* Literal sequences of primitive references: the fixed-length specifiers.
FixedArrays == {Arr(s) : s \in SeqsUpTo(Prims, MaxLen) \ {<<>>}}

ArrayOfs == {ArrayOf(inner) : inner \in Prims \cup NestedFormats}

OptionalInner ==
  Prims \cup {PersonFormat, Arr(<<StringType>>), ArrayOf(StringType)}

Optionals == {optional(inner) : inner \in OptionalInner}

Specifiers == Prims \cup NestedFormats \cup FixedArrays \cup ArrayOfs \cup Optionals

\* The formats: a field name of any specifier, a field age that is a
\* required or an optional Number, either field or both.
Formats ==
  {Literal(n \o a) : n \in WithOptional("name", Specifiers),
                     a \in WithOptional("age", {NumberType, optional(NumberType)})}

Leaves == {Undef, Null, Str("Alice"), Num("30"), AnonFn}

PersonObjects ==
  {Literal(<<<<"name", Str("Alice")>>, <<"age", a>>>>) : a \in {Num("30"), Str("30")}}

Arrays ==
  {Arr(s) : s \in SeqsUpTo({Str("Alice"), Num("30")} \cup PersonObjects, MaxLen)}

FieldValues == Leaves \cup Arrays \cup PersonObjects

ObjectTargets ==
  {Literal(n \o a) : n \in WithOptional("name", FieldValues),
                     a \in WithOptional("age", {Num("30"), Str("30"), Undef})}

Targets == ObjectTargets \cup {Undef, Null, Str("Alice"), Num("30")}

\* Argument lists of the synthesized constructor: one keyed object, or up to
\* MaxLen + 1 positional arguments (one more than the formats have keys).
ArgLists ==
  {<<o>> : o \in ObjectTargets}
    \cup SeqsUpTo({Str("Alice"), Null, PersonFormat}, MaxLen + 1)

\* What the caller later assigns to a key of its format object.
Assigned == Prims

\* ------------------------------------------------------------ state
VARIABLES
  heap,       \* the objects the caller and the descriptor share, by reference
  desc,       \* the descriptor: [typeName, format], format a reference
  mutations,  \* how many times the caller has changed its format object
  pc,         \* "idle", or the call that has just returned
  target,     \* the object passed to verify or applyTo
  args,       \* the arguments passed to the synthesized constructor
  result,     \* what verify returned: "true", "false", "throw" ("none": no call)
  instance    \* what the synthesized constructor or applyTo returned

vars == <<heap, desc, mutations, pc, target, args, result, instance>>

\* descriptor.format: the object the stored reference points to now.
Format == heap[desc.format]

\* const F = {...}; const descriptor = new Type(typeName, F)
Init ==
  \E typeName \in TypeNames, F \in Formats :
    /\ heap = [caller |-> F, FORMAT |-> ShallowCopy(F)]
    /\ desc = Type(typeName, "caller")
    /\ mutations = 0
    /\ pc = "idle"
    /\ target = Undef
    /\ args = <<>>
    /\ result = "none"
    /\ instance = Undef

\* descriptor.verify(o)
Verify ==
  /\ pc = "idle"
  /\ \E o \in Targets :
       /\ target' = o
       /\ result' = verify(o, Format)
  /\ pc' = "verify"
  /\ UNCHANGED <<heap, desc, mutations, args, instance>>

\* new descriptor.type(...a)
Construct ==
  /\ pc = "idle"
  /\ \E a \in ArgLists :
       /\ args' = a
       /\ instance' = constructor(desc.typeName, Format, a)
  /\ pc' = "construct"
  /\ UNCHANGED <<heap, desc, mutations, target, result>>

\* descriptor.verify(instance), for the instance just constructed
VerifyInstance ==
  /\ pc = "construct"
  /\ ~Throws(instance)
  /\ result' = verify(instance, Format)
  /\ pc' = "roundtrip"
  /\ UNCHANGED <<heap, desc, mutations, target, args, instance>>

\* descriptor.applyTo(o)
ApplyTo ==
  /\ pc = "idle"
  /\ \E o \in Targets :
       /\ target' = o
       /\ instance' = applyTo(desc.typeName, o)
  /\ pc' = "applyTo"
  /\ UNCHANGED <<heap, desc, mutations, args, result>>

\* descriptor.verify(tagged), for the object applyTo has just returned
VerifyApplied ==
  /\ pc = "applyTo"
  /\ result' = verify(instance, Format)
  /\ pc' = "verifyApplied"
  /\ UNCHANGED <<heap, desc, mutations, target, args, instance>>

\* descriptor.verify({name: tagged}): target becomes {name: o}, the same
\* holder around the object before applyTo.
VerifyHeld ==
  /\ pc = "applyTo"
  /\ target' = Literal(<<<<"name", target>>>>)
  /\ instance' = Literal(<<<<"name", instance>>>>)
  /\ result' = verify(instance', Format)
  /\ pc' = "verifyHeld"
  /\ UNCHANGED <<heap, desc, mutations, args>>

\* F[key] = spec, by the caller, after the descriptor was constructed
AssignKey ==
  /\ pc = "idle"
  /\ mutations < MaxMutations
  /\ \E key \in {"name", "age"}, spec \in Assigned :
       heap' = [heap EXCEPT !["caller"].props = DefineProperty(@, key, spec)]
  /\ mutations' = mutations + 1
  /\ UNCHANGED <<desc, pc, target, args, result, instance>>

\* delete F[key], by the caller
DeleteKey ==
  /\ pc = "idle"
  /\ mutations < MaxMutations
  /\ \E key \in {"name", "age"} :
       /\ HasOwn(heap["caller"], key)
       /\ heap' = [heap EXCEPT !["caller"].props =
                     SelectSeq(@, LAMBDA p : p[1] # key)]
  /\ mutations' = mutations + 1
  /\ UNCHANGED <<desc, pc, target, args, result, instance>>

\* The call's results have been used; the next call starts afresh.
Return ==
  /\ pc # "idle"
  /\ pc' = "idle"
  /\ target' = Undef
  /\ args' = <<>>
  /\ result' = "none"
  /\ instance' = Undef
  /\ UNCHANGED <<heap, desc, mutations>>

Next ==
  \/ Verify
  \/ Construct
  \/ VerifyInstance
  \/ ApplyTo
  \/ VerifyApplied
  \/ VerifyHeld
  \/ AssignKey
  \/ DeleteKey
  \/ Return

Spec == Init /\ [][Next]_vars

\* The constructor and the verifier alone: construct an instance, verify it.
NextRoundTrip ==
  \/ Construct
  \/ VerifyInstance
  \/ Return

SpecRoundTrip == Init /\ [][NextRoundTrip]_vars

\* ------------------------------------------------------------ claims
\* A call of verify on a plain data object has just returned.
Verified == pc = "verify" /\ target.k = "object"

\* Every specifier of the format is a primitive type reference.
AllPrimitive(format) ==
  \A i \in 1..Len(format.props) : format.props[i][2] \in Prims

\* The value's runtime type name is the name of the declared type.
NameMatches(value, type) == from(value) = Str(type.name)

\* Every key of the format is present and holds a value of the declared name.
Conforms(object, format) ==
  \A i \in 1..Len(format.props) :
    /\ HasOwn(object, format.props[i][1])
    /\ NameMatches(Get(object, format.props[i][1]), format.props[i][2])

\* C1: against a format of primitive type references, verify returns true
\* if and only if every key of the format is present with a value whose
\* runtime type name is the declared type's name, and false otherwise.
C1_PrimitiveFormat ==
  (Verified /\ AllPrimitive(Format))
    => result = IF Conforms(target, Format) THEN "true" ELSE "false"

\* The half of C1 that the code keeps: verify returns true exactly on the
\* conforming objects (on the others it returns false or throws).
C1_TrueExactlyWhenConforms ==
  (Verified /\ AllPrimitive(Format))
    => (result = "true" <=> Conforms(target, Format))

\* The candidate is an array of exactly the specifier's length whose
\* elements match the specifier's elements, position by position.
FixedMatches(candidate, spec) ==
  /\ candidate.k = "array"
  /\ Len(candidate.props) = Len(spec.props)
  /\ \A i \in 1..Len(spec.props) :
       NameMatches(candidate.props[i][2], spec.props[i][2])

\* C2: a field whose specifier is a literal sequence of n type specifiers
\* passes only if its array has exactly n elements, each matching the
\* specifier at its index: verify does not return true for an array that is
\* longer or shorter than n.
C2_FixedLength ==
  \A i \in 1..Len(Format.props) :
    (Verified /\ Format.props[i][2] \in FixedArrays
              /\ Get(target, Format.props[i][1]).k = "array"
              /\ result = "true")
      => FixedMatches(Get(target, Format.props[i][1]), Format.props[i][2])

\* The candidate is an array, of any length, of elements of type name T.
ArrayOfMatches(candidate, T) ==
  /\ candidate.k = "array"
  /\ \A i \in 1..Len(candidate.props) : NameMatches(candidate.props[i][2], T)

\* C3: against {name: new Type.ArrayOf(T)}, T a primitive type reference,
\* verify returns true for an array, of any length including zero, whose
\* every element has T's type name, and false for an array with another
\* element.
C3_ArrayOfPrimitive ==
  \A T \in Prims :
    (Verified /\ Format = Literal(<<<<"name", ArrayOf(T)>>>>)
              /\ Get(target, "name").k = "array")
      => result = IF ArrayOfMatches(Get(target, "name"), T)
                  THEN "true" ELSE "false"

\* C4: new Type.ArrayOf(F), F a nested object format, retains F as its inner
\* specifier, and against {name: new Type.ArrayOf(F)} verify returns true when
\* every element of the field's array conforms to F and false when one does
\* not.
C4_ArrayOfFormat ==
  \A F \in NestedFormats :
    (Verified /\ Format = Literal(<<<<"name", ArrayOf(F)>>>>)
              /\ Get(target, "name").k = "array")
      => /\ Get(ArrayOf(F), "type") = F
         /\ result =
              IF \A i \in 1..Len(Get(target, "name").props) :
                   verify(Get(target, "name").props[i][2], F) = "true"
              THEN "true" ELSE "false"

\* C5: verify never throws, whatever the target (null, undefined and
\* primitives included): it returns true or false.
C5_VerifyNeverThrows ==
  pc \in {"verify", "roundtrip", "verifyApplied", "verifyHeld"}
    => result \in {"true", "false"}

\* The format without its i-th field, and with its i-th specifier replaced.
WithoutField(format, i) ==
  Literal(SelectSeq(format.props, LAMBDA p : p[1] # format.props[i][1]))

WithSpecifier(format, i, spec) ==
  Literal([format.props EXCEPT ![i] = <<format.props[i][1], spec>>])

\* C6: a field whose specifier is Type.optional(T) contributes true when
\* the object lacks the key; when the object has the key the field passes
\* exactly when its value verifies against T, so that a present value of
\* another type, undefined included, makes verify return false.
C6_Optional ==
  \A i \in 1..Len(Format.props), T \in OptionalInner :
    (Verified /\ Format.props[i][2] = optional(T))
      => IF ~HasOwn(target, Format.props[i][1])
         THEN result = verify(target, WithoutField(Format, i))
         ELSE /\ result = verify(target, WithSpecifier(Format, i, T))
              /\ (T \in Prims /\ ~NameMatches(Get(target, Format.props[i][1]), T))
                   => result = "false"

\* The part of C6 that the code keeps: an Optional field counts as passed
\* when the key is absent and is checked as T when the key is present.
C6_OptionalAsUnwrapped ==
  \A i \in 1..Len(Format.props), T \in OptionalInner :
    (Verified /\ Format.props[i][2] = optional(T))
      => result = IF HasOwn(target, Format.props[i][1])
                  THEN verify(target, WithSpecifier(Format, i, T))
                  ELSE verify(target, WithoutField(Format, i))

\* An instance was constructed from one conforming object literal and then
\* verified against the same format.
RoundTripped ==
  /\ pc = "roundtrip"
  /\ Len(args) = 1
  /\ args[1].k = "object"
  /\ verify(args[1], Format) = "true"

\* Every key of the format is an own key of the object.
HasEveryKey(object, format) ==
  \A i \in 1..Len(format.props) : HasOwn(object, format.props[i][1])

\* C7 (as stated): for every format F and every object literal o with
\* verify(o, F) true, verifying new descriptor.type(o) against F returns true.
C7_RoundTrip == RoundTripped => result = "true"

\* C7 (amended): for every format F and every object literal o that has
\* every key of F and for which verify(o, F) is true, verifying
\* new descriptor.type(o) against F returns true.
C7_RoundTripAllKeys ==
  (RoundTripped /\ HasEveryKey(args[1], Format)) => result = "true"

\* C7's case: a conforming literal with every key of a format that has a
\* nested or array specifier was constructed and verified.
C7_Witness ==
  /\ RoundTripped
  /\ HasEveryKey(args[1], Format)
  /\ \E i \in 1..Len(Format.props) : TypeofObject(Format.props[i][2])
  /\ result = "true"

\* The instance the keyed call new type({k1: v1, ..., kn: vn}) produces for
\* the positional arguments v1..vn: the format's keys, in order, with the
\* arguments at their positions and undefined where none was supplied.
KeyedInstance(typeName, format, a) ==
  Obj(typeName,
      [i \in 1..Len(format.props) |->
         <<format.props[i][1], IF i <= Len(a) THEN a[i] ELSE Undef>>])

\* C8: the synthesized constructor never throws, whatever its arguments;
\* a single object argument is matched to the format's keys by name, keys
\* without a value are assigned undefined, and positional arguments v1..vn
\* produce the fields of the keyed call with {k1: v1, ..., kn: vn}.
C8_ConstructorTotal ==
  pc \in {"construct", "roundtrip"}
    => /\ ~Throws(instance)
       /\ Keys(instance) = Keys(Format)
       /\ (Len(args) = 1 /\ args[1].k = "object")
            => \A i \in 1..Len(Format.props) :
                 Get(instance, Format.props[i][1])
                   = Get(args[1], Format.props[i][1])
       /\ ~(Len(args) = 1 /\ args[1].k = "object")
            => instance = KeyedInstance(desc.typeName, Format, args)

\* C9: wherever verify returns a boolean for an object, it returns the same
\* boolean for that object after applyTo, as the top-level target and as
\* the value of a field.
C9_MetadataIgnored ==
  (pc \in {"verifyApplied", "verifyHeld"} /\ target.k = "object"
     /\ verify(target, Format) \in {"true", "false"})
    => result = verify(target, Format)

\* The part of C9 that the code keeps: as the top-level target, an object
\* verifies the same before and after applyTo.
C9_TopLevelIgnored ==
  (pc = "verifyApplied" /\ target.k = "object")
    => result = verify(target, Format)

\* C10: descriptor.format is the format as it was when the descriptor was
\* constructed (the copy {...format} made then), whatever the caller has
\* since added to, removed from or replaced in its own object.
C10_FormatImmutable == Format = heap["FORMAT"]

====
